---- MODULE Spec2Model ----
(***************************************************************************)
(* Coupons API (src/main.py, src/schemas.py): create_coupon, list_coupons  *)
(* and apply_coupon over the two collections "coupon" and "redemption".    *)
(*                                                                         *)
(* Representation.                                                         *)
(*  - A str is a sequence of one-character strings, so that strip() and    *)
(*    upper() are computed and not assumed.                                *)
(*  - An Optional[T] is a sequence of length 0 (None) or 1 (the value).    *)
(*  - A float amount is an integer number of thousandths (mills): 5 is     *)
(*    0.005, 10 is one cent, 5000 is 5.00.  A percent value is in mills    *)
(*    of a percent: 100000 is 100%.                                        *)
(*  - A datetime is an integer instant.                                    *)
(*  - round(x, 2) is exact except on a decimal tie (x exactly halfway      *)
(*    between two cents): the binary double nearest to such an x lies      *)
(*    above or below it, and round() follows the double.  Round2 is the    *)
(*    set of results: the one cent where the side of the double is known   *)
(*    (TiesAway), both neighbours elsewhere.                               *)
(***************************************************************************)
EXTENDS Integers, Sequences, FiniteSets, TLC

VARIABLES
  coupons,      \* the "coupon" collection, in insertion order
  redemptions,  \* the "redemption" collection, in insertion order
  now,          \* datetime.now(timezone.utc)
  pc,           \* per request worker: where its handler stands
  frame,        \* per request worker: the handler's local variables
  call,         \* the request the last step answered (NoCall: it answered none)
  resp          \* the response it gave

vars == <<coupons, redemptions, now, pc, frame, call, resp>>

---------------------------------------------------------------------------
(* Bounds and input sets *)

MaxCoupons == 2
MaxRedemptions == 2
MaxTime == 1

Procs == {"w1", "w2"}

None == <<>>
Some(x) == <<x>>

Whitespace == {" "}
RawCodes == {<<"a">>, <<" ", "A", " ">>, <<"b">>}
\* <<discount_type, value>>: 100%, 5.00 off; refused: 150%, 0%, 0.00 off
DiscountSpecs == {<<"percent", 100000>>, <<"fixed", 5000>>}
RefusedDiscountSpecs == {<<"percent", 150000>>, <<"percent", 0>>, <<"fixed", 0>>}
\* <<max_uses, expires_at, min_order_amount, is_active>>
CouponProfiles ==
  { <<None, None, None, TRUE>>,
    <<Some(1), None, Some(4000), TRUE>>,
    <<Some(1), Some(0), None, TRUE>>,
    <<None, Some(0), Some(4000), FALSE>> }
\* -0.005 (refused), 0.005, 0.006, 5.00
OrderAmounts == {-5, 5, 6, 5000}
UserIds == {Some("u1")}

CreatePayload(c, d, f) ==
  [code |-> c, discount_type |-> d[1], value |-> d[2], max_uses |-> f[1],
   expires_at |-> f[2], min_order_amount |-> f[3], is_active |-> f[4]]

CreatePayloads ==
  {CreatePayload(c, d, f) : c \in RawCodes, d \in DiscountSpecs, f \in CouponProfiles}
  \cup {CreatePayload(c, d, <<None, None, None, TRUE>>) :
          c \in RawCodes, d \in RefusedDiscountSpecs}

ApplyPayloads ==
  { [code |-> c, order_amount |-> o, user_id |-> u] :
      c \in RawCodes, o \in OrderAmounts, u \in UserIds }

---------------------------------------------------------------------------
(* str.strip() and str.upper() *)

Upper(ch) == CASE ch = "a" -> "A" [] ch = "b" -> "B" [] OTHER -> ch

RECURSIVE LStrip(_)
LStrip(s) == IF Len(s) > 0 /\ Head(s) \in Whitespace THEN LStrip(Tail(s)) ELSE s

RECURSIVE RStrip(_)
RStrip(s) ==
  IF Len(s) > 0 /\ s[Len(s)] \in Whitespace
  THEN RStrip(SubSeq(s, 1, Len(s) - 1)) ELSE s

Strip(s) == RStrip(LStrip(s))

UpperStr(s) == [i \in 1..Len(s) |-> Upper(s[i])]

\* a variant that trims and does not change the case
Normalize_NoUpper(raw) == Strip(raw)

Normalize(raw) == UpperStr(Strip(raw))

---------------------------------------------------------------------------
(* The document store *)

Min(S) == CHOOSE x \in S : \A y \in S : x <= y

FindOne(coll, code) ==
  LET hits == {i \in 1..Len(coll) : coll[i].code = code}
  IN  IF hits = {} THEN None ELSE Some(coll[Min(hits)])

CountDocuments(coll, code) ==
  Cardinality({i \in 1..Len(coll) : coll[i].coupon_code = code})

CreateDocument(coll, doc) == Append(coll, doc)

GetDocuments(coll) == coll

---------------------------------------------------------------------------
(* Python truthiness and round() *)

Truthy(opt) == opt # None /\ opt[1] # 0

\* The decimal ties (in mills, by magnitude) whose nearest double lies farther
\* from zero than the tie itself: 0.005 is 0.005000000000000000104..., so
\* round(0.005, 2) = 0.01 and round(-0.005, 2) = -0.01.
TiesAway == {5}

Abs(n) == IF n < 0 THEN -n ELSE n

\* round(n/d mills, 2) in mills (d > 0): the nearest cent; on a tie the cent
\* away from zero when the double is known to lie there, either cent otherwise
Round2(n, d) ==
  LET q == n \div (10 * d)
      r == n - (10 * d) * q
      away == IF n < 0 THEN 10 * q ELSE 10 * (q + 1)
  IN  IF 2 * r < 10 * d THEN {10 * q}
      ELSE IF 2 * r > 10 * d THEN {10 * (q + 1)}
      ELSE IF Abs(n) % d = 0 /\ (Abs(n) \div d) \in TiesAway THEN {away}
      ELSE {10 * q, 10 * (q + 1)}

---------------------------------------------------------------------------
(* create_coupon *)

ValidCreateRequest(p) ==
  /\ p.discount_type \in {"percent", "fixed"}
  /\ p.value > 0
  /\ (p.max_uses # None => p.max_uses[1] >= 1)
  /\ (p.min_order_amount # None => p.min_order_amount[1] >= 0)

HttpError(op, status, detail) == [op |-> op, status |-> status, detail |-> detail]

Unprocessable(op) == HttpError(op, 422, "validation error")

\* a variant without the duplicate check
CreateReject_NoDuplicateCheck(existing, p) ==
  IF p.discount_type = "percent" /\ ~(0 < p.value /\ p.value <= 100000)
  THEN Some("Percent discount must be between 0 and 100")
  ELSE None

\* a variant without the percent range check
CreateReject_NoPercentCheck(existing, p) ==
  IF existing # None THEN Some("Coupon code already exists") ELSE None

CreateReject(existing, p) ==
  IF existing # None
  THEN Some("Coupon code already exists")
  ELSE IF p.discount_type = "percent" /\ ~(0 < p.value /\ p.value <= 100000)
  THEN Some("Percent discount must be between 0 and 100")
  ELSE None

OrZero(opt) == IF Truthy(opt) THEN opt[1] ELSE 0

\* notes is free text that no handler reads: it is left out of the document
CouponDoc(code, p) ==
  [code |-> code, discount_type |-> p.discount_type, value |-> p.value,
   max_uses |-> p.max_uses, expires_at |-> p.expires_at,
   min_order_amount |-> OrZero(p.min_order_amount), is_active |-> p.is_active]

CouponResponse(id, doc) ==
  [op |-> "create", status |-> 200, id |-> id, code |-> doc.code,
   discount_type |-> doc.discount_type, value |-> doc.value,
   max_uses |-> doc.max_uses, expires_at |-> doc.expires_at,
   min_order_amount |-> doc.min_order_amount, is_active |-> doc.is_active,
   uses |-> 0]

\* lines 82-91: the lookup and the two checks; what is left to insert
CreateCheck(coll, p) ==
  IF ~ValidCreateRequest(p)
  THEN [resp |-> Some(Unprocessable("create")), insert |-> None]
  ELSE LET code == Normalize(p.code)
           why == CreateReject(FindOne(coll, code), p)
       IN  IF why # None
           THEN [resp |-> Some(HttpError("create", 400, why[1])), insert |-> None]
           ELSE [resp |-> None, insert |-> Some(CouponDoc(code, p))]

---------------------------------------------------------------------------
(* list_coupons *)

\* a variant that looks at the usage before the expiry
Status_UsageFirst(c, uses, t) ==
  IF ~c.is_active THEN "inactive"
  ELSE IF Truthy(c.max_uses) /\ uses >= c.max_uses[1] THEN "exhausted"
  ELSE IF c.expires_at # None /\ c.expires_at[1] < t THEN "expired"
  ELSE "active"

Status(c, uses, t) ==
  IF ~c.is_active THEN "inactive"
  ELSE IF c.expires_at # None /\ c.expires_at[1] < t THEN "expired"
  ELSE IF Truthy(c.max_uses) /\ uses >= c.max_uses[1] THEN "exhausted"
  ELSE "active"

ListItem(id, c, uses, t) ==
  [id |-> id, code |-> c.code, status |-> Status(c, uses, t),
   type |-> c.discount_type, value |-> c.value, uses |-> uses,
   max_uses |-> c.max_uses, expires_at |-> c.expires_at]

\* a variant that reports the size of the redemption collection as the uses
\* of every coupon
ListItems_CountsAll(coll, reds, t) ==
  [i \in 1..Len(GetDocuments(coll)) |-> ListItem(i, coll[i], Len(reds), t)]

ListItems(coll, reds, t) ==
  [i \in 1..Len(GetDocuments(coll)) |->
     ListItem(i, coll[i], CountDocuments(reds, coll[i].code), t)]

---------------------------------------------------------------------------
(* apply_coupon *)

ValidApplyRequest(req) == req.order_amount >= 0

Rejected(reason) ==
  [op |-> "apply", status |-> 200, valid |-> FALSE, reason |-> Some(reason),
   code |-> None, discount_amount |-> 0, final_amount |-> 0]

Accepted(code, discount, final) ==
  [op |-> "apply", status |-> 200, valid |-> TRUE, reason |-> None,
   code |-> Some(code), discount_amount |-> discount, final_amount |-> final]

\* an exception that leaves the handler: the framework answers 500
ServerError(op) == HttpError(op, 500, "Internal Server Error")

\* a variant that looks at the expiry before is_active
ApplyPrecheck_ExpiryFirst(coupon, t) ==
  IF coupon = None THEN Some("Invalid code")
  ELSE IF coupon[1].expires_at # None /\ coupon[1].expires_at[1] < t
  THEN Some("Coupon expired")
  ELSE IF ~coupon[1].is_active THEN Some("Coupon inactive")
  ELSE None

\* a variant with the comparison of the expiry turned around
ApplyPrecheck_ExpiryReversed(coupon, t) ==
  IF coupon = None THEN Some("Invalid code")
  ELSE IF ~coupon[1].is_active THEN Some("Coupon inactive")
  ELSE IF coupon[1].expires_at # None /\ coupon[1].expires_at[1] >= t
  THEN Some("Coupon expired")
  ELSE None

\* lines 170-180
ApplyPrecheck(coupon, t) ==
  IF coupon = None THEN Some("Invalid code")
  ELSE IF ~coupon[1].is_active THEN Some("Coupon inactive")
  ELSE IF coupon[1].expires_at # None /\ coupon[1].expires_at[1] < t
  THEN Some("Coupon expired")
  ELSE None

\* a variant that never looks at max_uses
ApplyUsageCheck_NoLimit(c, uses, order_amount) ==
  IF order_amount < c.min_order_amount THEN Some("Order below minimum amount")
  ELSE None

\* lines 183-187
ApplyUsageCheck(c, uses, order_amount) ==
  IF Truthy(c.max_uses) /\ uses >= c.max_uses[1] THEN Some("Usage limit reached")
  ELSE IF order_amount < c.min_order_amount THEN Some("Order below minimum amount")
  ELSE None

\* a variant that cuts the percent discount down to the cent below
Discounts_Truncated(c, order_amount) ==
  IF c.discount_type = "percent"
  THEN {10 * ((order_amount * c.value) \div 1000000)}
  ELSE IF order_amount >= c.value THEN {c.value} ELSE {order_amount}

\* lines 190-193
Discounts(c, order_amount) ==
  IF c.discount_type = "percent"
  THEN Round2(order_amount * c.value, 100000)
  ELSE IF order_amount >= c.value THEN {c.value} ELSE {order_amount}

\* line 195
Finals(order_amount, discount) == Round2(order_amount - discount, 1)

\* a variant that stores the discount as the final amount as well
RedemptionDoc_DiscountAsFinal(code, order_amount, discount, final, user_id) ==
  [coupon_code |-> code, order_amount |-> order_amount,
   discount_amount |-> discount, final_amount |-> discount,
   user_id |-> user_id]

RedemptionDoc(code, order_amount, discount, final, user_id) ==
  [coupon_code |-> code, order_amount |-> order_amount,
   discount_amount |-> discount, final_amount |-> final, user_id |-> user_id]

\* the ge=0 constraints of the Redemption schema
ValidRedemption(doc) ==
  doc.order_amount >= 0 /\ doc.discount_amount >= 0 /\ doc.final_amount >= 0

\* a variant that records the redemption before it checks anything
ApplyCompute_RecordsFirst(code, c, uses, req) ==
  LET why == ApplyUsageCheck(c, uses, req.order_amount)
  IN  IF why # None
      THEN {[resp |-> Rejected(why[1]),
             insert |-> Some(RedemptionDoc(code, req.order_amount, 0,
                                           req.order_amount, req.user_id))]}
      ELSE UNION {
             { LET doc == RedemptionDoc(code, req.order_amount, d, f, req.user_id)
               IN  IF ValidRedemption(doc)
                   THEN [resp |-> Accepted(code, d, f), insert |-> Some(doc)]
                   ELSE [resp |-> ServerError("apply"), insert |-> None]
               : f \in Finals(req.order_amount, d) }
             : d \in Discounts(c, req.order_amount) }

\* lines 183-208, given the coupon found and the usage counted
ApplyCompute(code, c, uses, req) ==
  LET why == ApplyUsageCheck(c, uses, req.order_amount)
  IN  IF why # None
      THEN {[resp |-> Rejected(why[1]), insert |-> None]}
      ELSE UNION {
             { LET doc == RedemptionDoc(code, req.order_amount, d, f, req.user_id)
               IN  IF ValidRedemption(doc)
                   THEN [resp |-> Accepted(code, d, f), insert |-> Some(doc)]
                   ELSE [resp |-> ServerError("apply"), insert |-> None]
               : f \in Finals(req.order_amount, d) }
             : d \in Discounts(c, req.order_amount) }

\* the whole handler on one store state
ApplyOutcomes(coll, reds, t, req) ==
  IF ~ValidApplyRequest(req)
  THEN {[resp |-> Unprocessable("apply"), insert |-> None]}
  ELSE LET code == Normalize(req.code)
           coupon == FindOne(coll, code)
           why == ApplyPrecheck(coupon, t)
       IN  IF why # None
           THEN {[resp |-> Rejected(why[1]), insert |-> None]}
           ELSE ApplyCompute(code, coupon[1], CountDocuments(reds, code), req)

---------------------------------------------------------------------------
(* Requests served one after another: each handler runs to completion *)

NoFrame == [at |-> "none"]

\* what is kept of a request: the operation, the raw code, the order amount
NoCall == [op |-> "none"]

NoResp == [op |-> "none", status |-> 0]

CreateCall(p) == [op |-> "create", code |-> p.code]

ListCall == [op |-> "list"]

ApplyCall(req) ==
  [op |-> "apply", code |-> req.code, order_amount |-> req.order_amount]

Silent == call' = NoCall /\ resp' = NoResp

AllIdle == \A w \in Procs : pc[w] = "idle"

Init ==
  /\ coupons = <<>>
  /\ redemptions = <<>>
  /\ now = 0
  /\ pc = [w \in Procs |-> "idle"]
  /\ frame = [w \in Procs |-> NoFrame]
  /\ call = NoCall
  /\ resp = NoResp

CreateCoupon(p) ==
  /\ AllIdle
  /\ LET chk == CreateCheck(coupons, p)
     IN  IF chk.insert = None
         THEN /\ resp' = chk.resp[1]
              /\ UNCHANGED coupons
         ELSE /\ Len(coupons) < MaxCoupons
              /\ coupons' = CreateDocument(coupons, chk.insert[1])
              /\ resp' = CouponResponse(Len(coupons) + 1, chk.insert[1])
  /\ call' = CreateCall(p)
  /\ UNCHANGED <<redemptions, now, pc, frame>>

\* a variant of list that removes the coupons it finds expired
ListCoupons_DropsExpired ==
  /\ AllIdle
  /\ resp' = [op |-> "list", status |-> 200,
              items |-> ListItems(coupons, redemptions, now)]
  /\ call' = ListCall
  /\ coupons' = SelectSeq(coupons,
                    LAMBDA c : ~(c.expires_at # None /\ c.expires_at[1] < now))
  /\ UNCHANGED <<redemptions, now, pc, frame>>

ListCoupons ==
  /\ AllIdle
  /\ resp' = [op |-> "list", status |-> 200,
              items |-> ListItems(coupons, redemptions, now)]
  /\ call' = ListCall
  /\ UNCHANGED <<coupons, redemptions, now, pc, frame>>

\* a variant that switches a coupon off once its last use is taken
ApplyCoupon_SwitchesOff(req) ==
  /\ AllIdle
  /\ \E o \in ApplyOutcomes(coupons, redemptions, now, req) :
       /\ resp' = o.resp
       /\ IF o.insert = None
          THEN UNCHANGED <<coupons, redemptions>>
          ELSE /\ Len(redemptions) < MaxRedemptions
               /\ redemptions' = CreateDocument(redemptions, o.insert[1])
               /\ coupons' =
                    [i \in 1..Len(coupons) |->
                       IF /\ coupons[i].code = o.insert[1].coupon_code
                          /\ coupons[i].max_uses # None
                          /\ CountDocuments(redemptions', coupons[i].code)
                               >= coupons[i].max_uses[1]
                       THEN [coupons[i] EXCEPT !.is_active = FALSE]
                       ELSE coupons[i]]
  /\ call' = ApplyCall(req)
  /\ UNCHANGED <<now, pc, frame>>

ApplyCoupon(req) ==
  /\ AllIdle
  /\ \E o \in ApplyOutcomes(coupons, redemptions, now, req) :
       /\ resp' = o.resp
       /\ IF o.insert = None
          THEN UNCHANGED redemptions
          ELSE /\ Len(redemptions) < MaxRedemptions
               /\ redemptions' = CreateDocument(redemptions, o.insert[1])
  /\ call' = ApplyCall(req)
  /\ UNCHANGED <<coupons, now, pc, frame>>

Tick ==
  /\ now < MaxTime
  /\ now' = now + 1
  /\ Silent
  /\ UNCHANGED <<coupons, redemptions, pc, frame>>

Next ==
  \/ \E p \in CreatePayloads : CreateCoupon(p)
  \/ ListCoupons
  \/ \E req \in ApplyPayloads : ApplyCoupon(req)
  \/ Tick

Spec == Init /\ [][Next]_vars

---------------------------------------------------------------------------
(* Requests served concurrently: a handler is one step per store call, and   *)
(* the steps of the workers interleave                                       *)

\* the requests the concurrent workers draw from
ConcCreatePayloads ==
  {p \in CreatePayloads : p.discount_type = "fixed" /\ p.max_uses # None}

ConcApplyPayloads == {req \in ApplyPayloads : req.order_amount >= 5000}

InFlight(at) == Cardinality({w \in Procs : pc[w] = at})

Goto(w, at, locals) ==
  /\ pc' = [pc EXCEPT ![w] = at]
  /\ frame' = [frame EXCEPT ![w] = locals]

Return(w, request, response) ==
  /\ pc' = [pc EXCEPT ![w] = "idle"]
  /\ frame' = [frame EXCEPT ![w] = NoFrame]
  /\ call' = request
  /\ resp' = response

\* lines 82-91: normalize, find_one, the duplicate and percent checks
CreateLookup(w, p) ==
  /\ pc[w] = "idle"
  /\ LET chk == CreateCheck(coupons, p)
     IN  IF chk.insert = None
         THEN Return(w, CreateCall(p), chk.resp[1])
         ELSE /\ Len(coupons) + InFlight("create_insert") < MaxCoupons
              /\ Goto(w, "create_insert",
                      [at |-> "create", req |-> p, doc |-> chk.insert[1]])
              /\ Silent
  /\ UNCHANGED <<coupons, redemptions, now>>

\* lines 104-116: create_document and the response
CreateInsert(w) ==
  /\ pc[w] = "create_insert"
  /\ coupons' = CreateDocument(coupons, frame[w].doc)
  /\ Return(w, CreateCall(frame[w].req),
            CouponResponse(Len(coupons) + 1, frame[w].doc))
  /\ UNCHANGED <<redemptions, now>>

\* lines 166-180: normalize, find_one, the active and expiry checks
ApplyLookup(w, req) ==
  /\ pc[w] = "idle"
  /\ IF ~ValidApplyRequest(req)
     THEN Return(w, ApplyCall(req), Unprocessable("apply"))
     ELSE LET code == Normalize(req.code)
              coupon == FindOne(coupons, code)
              why == ApplyPrecheck(coupon, now)
          IN  IF why # None
              THEN Return(w, ApplyCall(req), Rejected(why[1]))
              ELSE /\ Goto(w, "apply_count",
                           [at |-> "apply", req |-> req, code |-> code,
                            coupon |-> coupon[1]])
                   /\ Silent
  /\ UNCHANGED <<coupons, redemptions, now>>

\* lines 182-205: count_documents, the limit and minimum checks, the amounts
ApplyCount(w) ==
  /\ pc[w] = "apply_count"
  /\ LET f == frame[w]
         uses == CountDocuments(redemptions, f.code)
     IN  \E o \in ApplyCompute(f.code, f.coupon, uses, f.req) :
           IF o.insert = None
           THEN Return(w, ApplyCall(f.req), o.resp)
           ELSE /\ Len(redemptions) + InFlight("apply_insert") < MaxRedemptions
                /\ Goto(w, "apply_insert",
                        [at |-> "insert", req |-> f.req, code |-> f.code,
                         coupon |-> f.coupon, uses |-> uses,
                         red_doc |-> o.insert[1], resp |-> o.resp])
                /\ Silent
  /\ UNCHANGED <<coupons, redemptions, now>>

\* lines 206-208: create_document and the response
ApplyInsert(w) ==
  /\ pc[w] = "apply_insert"
  /\ redemptions' = CreateDocument(redemptions, frame[w].red_doc)
  /\ Return(w, ApplyCall(frame[w].req), frame[w].resp)
  /\ UNCHANGED <<coupons, now>>

NextConc ==
  \/ \E w \in Procs, p \in ConcCreatePayloads : CreateLookup(w, p)
  \/ \E w \in Procs : CreateInsert(w)
  \/ \E w \in Procs, req \in ConcApplyPayloads : ApplyLookup(w, req)
  \/ \E w \in Procs : ApplyCount(w)
  \/ \E w \in Procs : ApplyInsert(w)
  \/ Tick

SpecConc == Init /\ [][NextConc]_vars

---------------------------------------------------------------------------
(* The amounts of apply_coupon on their own: one stored coupon without limit, *)
(* expiry or minimum, and orders of many sizes                                *)

\* 10%, 15%, 5.00 off
AmountDiscountSpecs == {<<"percent", 10000>>, <<"percent", 15000>>, <<"fixed", 5000>>}

\* 0, 0.06, 0.10, 1.234, 3.00, 5.00, 100.00
AmountOrders == {0, 60, 100, 1234, 3000, 5000, 100000}

AmountCoupons ==
  {CouponDoc(Normalize(<<"a">>), CreatePayload(<<"a">>, d, <<None, None, None, TRUE>>)) :
     d \in AmountDiscountSpecs}

AmountApplyPayloads ==
  {[code |-> <<"a">>, order_amount |-> o, user_id |-> None] : o \in AmountOrders}

InitAmounts ==
  /\ coupons \in {<<c>> : c \in AmountCoupons}
  /\ redemptions = <<>>
  /\ now = 0
  /\ pc = [w \in Procs |-> "idle"]
  /\ frame = [w \in Procs |-> NoFrame]
  /\ call = NoCall
  /\ resp = NoResp

NextAmounts == \E req \in AmountApplyPayloads : ApplyCoupon(req)

SpecAmounts == InitAmounts /\ [][NextAmounts]_vars

---------------------------------------------------------------------------
(* Properties *)

StoredCoupon(raw) == FindOne(coupons, Normalize(raw))

Uses(code) == CountDocuments(redemptions, code)

IsRejection(r) == r.op = "apply" /\ r.status = 200 /\ ~r.valid

IsAccepted(r) == r.op = "apply" /\ r.status = 200 /\ r.valid

CheckReasons ==
  <<"Invalid code", "Coupon inactive", "Coupon expired", "Usage limit reached",
    "Order below minimum amount">>

\* the checks of the pipeline that fail for a request, each taken on its own
FailedChecks(req) ==
  LET coupon == StoredCoupon(req.code)
      c == coupon[1]
  IN  IF coupon = None THEN {1}
      ELSE {k \in 2..5 :
              \/ k = 2 /\ ~c.is_active
              \/ k = 3 /\ c.expires_at # None /\ c.expires_at[1] < now
              \/ k = 4 /\ c.max_uses # None /\ Uses(c.code) >= c.max_uses[1]
              \/ k = 5 /\ req.order_amount < c.min_order_amount}

\* C1: in every reachable store state, at every clock value and for every
\* request, apply rejects exactly when some check fails, and the reason is
\* that of the first failing check in the order not found, inactive, expired,
\* usage limit, below minimum.
C1_FirstFailingCheckDecides ==
  \A req \in ApplyPayloads :
    ValidApplyRequest(req) =>
      LET failed == FailedChecks(req)
      IN  \A o \in ApplyOutcomes(coupons, redemptions, now, req) :
            IF failed = {}
            THEN ~IsRejection(o.resp)
            ELSE o.resp = Rejected(CheckReasons[Min(failed)])

\* apply has answered "Coupon inactive" for a coupon that is expired as well,
\* or "Usage limit reached" to an order that is below the minimum as well
C1_Witness ==
  /\ call.op = "apply"
  /\ \/ resp = Rejected("Coupon inactive") /\ {2, 3} \subseteq FailedChecks(call)
     \/ resp = Rejected("Usage limit reached") /\ {4, 5} \subseteq FailedChecks(call)

\* trim + uppercase, written from its definition: the characters from the first
\* to the last one that is not whitespace, each in upper case
UpperCase == [ch \in {"a", "A", "b", "B", " "} |->
                IF ch = "a" THEN "A" ELSE IF ch = "b" THEN "B" ELSE ch]

Max(S) == CHOOSE x \in S : \A y \in S : x >= y

Canonical(raw) ==
  LET keep == {i \in 1..Len(raw) : raw[i] \notin Whitespace}
  IN  IF keep = {} THEN <<>>
      ELSE [i \in 1..(Max(keep) - Min(keep) + 1) |-> UpperCase[raw[Min(keep) + i - 1]]]

IsPrefix(s, t) == Len(s) <= Len(t) /\ SubSeq(t, 1, Len(s)) = s

\* C2 (as stated): while requests are served one after another, for a coupon
\* with max_uses = n that is active and unexpired, an apply whose order meets
\* the minimum succeeds when fewer than n redemptions of the code exist and is
\* refused with "Usage limit reached" otherwise; no code ever has more
\* redemptions than its max_uses.
C2_FirstNSucceedThenLimit ==
  /\ [](\A i \in 1..Len(coupons) :
          coupons[i].max_uses # None => Uses(coupons[i].code) <= coupons[i].max_uses[1])
  /\ [][(/\ call'.op = "apply"
         /\ call'.order_amount >= 0
         /\ FindOne(coupons, Canonical(call'.code)) # None
         /\ LET c == FindOne(coupons, Canonical(call'.code))[1]
            IN  /\ c.max_uses # None /\ c.is_active
                /\ ~(c.expires_at # None /\ c.expires_at[1] < now)
                /\ call'.order_amount >= c.min_order_amount)
        => LET c == FindOne(coupons, Canonical(call'.code))[1]
           IN  IF Uses(c.code) < c.max_uses[1]
               THEN IsAccepted(resp')
               ELSE resp' = Rejected("Usage limit reached")]_vars

\* the part of C2 that the code keeps: served one after another, applies never
\* take a code past its max_uses, and at the limit the answer is the refusal
C2_LimitNeverExceeded ==
  /\ [](\A i \in 1..Len(coupons) :
          coupons[i].max_uses # None => Uses(coupons[i].code) <= coupons[i].max_uses[1])
  /\ [][(/\ call'.op = "apply"
         /\ call'.order_amount >= 0
         /\ FindOne(coupons, Canonical(call'.code)) # None
         /\ LET c == FindOne(coupons, Canonical(call'.code))[1]
            IN  /\ c.max_uses # None /\ c.is_active
                /\ ~(c.expires_at # None /\ c.expires_at[1] < now)
                /\ call'.order_amount >= c.min_order_amount
                /\ Uses(c.code) >= c.max_uses[1])
        => resp' = Rejected("Usage limit reached")]_vars

\* C3: with concurrent workers, a worker about to insert a redemption passed
\* the limit check on a count taken earlier, which the collection may have
\* outgrown since; the overrun this allows is at most one redemption per other
\* worker.
C3_InsertAfterStaleCount ==
  /\ \A w \in Procs :
       pc[w] = "apply_insert" =>
         /\ frame[w].uses <= Uses(frame[w].code)
         /\ frame[w].coupon.max_uses # None =>
              frame[w].uses < frame[w].coupon.max_uses[1]
  /\ \A i \in 1..Len(coupons) :
       LET c == FindOne(coupons, coupons[i].code)[1]
       IN  c.max_uses # None =>
             Uses(c.code) <= c.max_uses[1] + Cardinality(Procs) - 1

\* two applies interleaved: the code has more redemptions than its max_uses
C3_Witness ==
  \E i \in 1..Len(coupons) :
    /\ coupons[i].max_uses # None
    /\ Uses(coupons[i].code) > coupons[i].max_uses[1]

\* C4: an apply that answers valid:false leaves the coupon collection and the
\* redemption collection as they were.
C4_RejectionWritesNothing ==
  [][(call'.op = "apply" /\ IsRejection(resp'))
       => (coupons' = coupons /\ redemptions' = redemptions)]_vars

\* an apply was refused while both collections hold documents
C4_Witness ==
  /\ call.op = "apply" /\ IsRejection(resp)
  /\ Len(coupons) > 0 /\ Len(redemptions) > 0

\* C5: an apply that answers valid:true appends exactly one redemption, with
\* the normalized code, the order amount of the request and the amounts of the
\* response; no other step changes the redemption collection, and no step
\* changes or removes a stored redemption.
C5_OneRecordPerAcceptedApply ==
  [][/\ IsPrefix(redemptions, redemptions')
     /\ (call'.op = "apply" /\ IsAccepted(resp')) =>
          /\ Len(redemptions') = Len(redemptions) + 1
          /\ LET rec == redemptions'[Len(redemptions')]
             IN  /\ rec.coupon_code = Canonical(call'.code)
                 /\ resp'.code = Some(rec.coupon_code)
                 /\ rec.order_amount = call'.order_amount
                 /\ rec.discount_amount = resp'.discount_amount
                 /\ rec.final_amount = resp'.final_amount
     /\ redemptions' # redemptions => (call'.op = "apply" /\ IsAccepted(resp'))
    ]_vars

\* an apply was accepted when a redemption was already stored
C5_Witness ==
  /\ call.op = "apply" /\ IsAccepted(resp)
  /\ Len(redemptions) >= 2
  /\ redemptions[Len(redemptions)].discount_amount = resp.discount_amount

C7_DiscountWithinOrder ==
  (call.op = "apply" /\ IsAccepted(resp)) =>
    /\ 0 <= resp.discount_amount
    /\ resp.discount_amount <= call.order_amount
    /\ resp.final_amount >= 0

\* C8 (as stated): every apply with order_amount >= 0 is answered with
\* valid:true or with valid:false and one of the five reasons.
C8_ApplyNeverErrors ==
  (call.op = "apply" /\ call.order_amount >= 0) =>
    /\ resp.status = 200
    /\ resp.valid \/ \E k \in 1..5 : resp.reason = Some(CheckReasons[k])

\* the strings of at most MaxCodeLen characters
MaxCodeLen == 2

CodeUniverse ==
  UNION {[1..n -> {"a", "A", "b", " "}] : n \in 0..MaxCodeLen}

\* normalization computes the trim + uppercase form, and normalizing twice
\* changes nothing
NormalizeIsCanonical ==
  \A raw \in CodeUniverse :
    /\ Normalize(raw) = Canonical(raw)
    /\ Normalize(Normalize(raw)) = Normalize(raw)

\* a request and another, no shorter, spelling of its code
Respelled(requests) ==
  {<<r, raw>> \in requests \X RawCodes :
     /\ raw # r.code /\ Len(raw) >= Len(r.code)
     /\ Canonical(raw) = Canonical(r.code)}

RespelledCreates == Respelled(CreatePayloads)

RespelledApplies == Respelled(ApplyPayloads)

\* C9: two raw codes with the same trim + uppercase form get the same outcome
\* and the same store writes from create and from apply, in every reachable
\* store state; every stored coupon code and redemption coupon_code is in that
\* form; normalization computes that form and normalizing twice changes
\* nothing.
C9_CodesAreNormalized ==
  /\ \A v \in RespelledCreates :
       CreateCheck(coupons, [v[1] EXCEPT !.code = v[2]]) = CreateCheck(coupons, v[1])
  /\ \A v \in RespelledApplies :
       ApplyOutcomes(coupons, redemptions, now, [v[1] EXCEPT !.code = v[2]])
         = ApplyOutcomes(coupons, redemptions, now, v[1])
  /\ \A i \in 1..Len(coupons) : coupons[i].code = Canonical(coupons[i].code)
  /\ \A j \in 1..Len(redemptions) :
       redemptions[j].coupon_code = Canonical(redemptions[j].coupon_code)
  /\ NormalizeIsCanonical

\* an apply spelled with surrounding whitespace was accepted for a coupon that
\* is stored, and redeemed, under the trimmed upper-case code
C9_Witness ==
  /\ call.op = "apply" /\ IsAccepted(resp)
  /\ Head(call.code) \in Whitespace
  /\ resp.code # Some(call.code)
  /\ \E i \in 1..Len(coupons) : Some(coupons[i].code) = resp.code
  /\ Some(redemptions[Len(redemptions)].coupon_code) = resp.code

StatusNames == <<"inactive", "expired", "exhausted">>

\* the conditions of the status derivation that hold for a coupon, each taken
\* on its own
StatusConditions(c) ==
  {k \in 1..3 :
     \/ k = 1 /\ ~c.is_active
     \/ k = 2 /\ c.expires_at # None /\ c.expires_at[1] < now
     \/ k = 3 /\ c.max_uses # None /\ Uses(c.code) >= c.max_uses[1]}

ExpectedStatus(c) ==
  IF StatusConditions(c) = {} THEN "active"
  ELSE StatusNames[Min(StatusConditions(c))]

\* C10: the status list reports for each stored coupon is that of the first
\* condition that holds in the order inactive, expired, exhausted, and active
\* when none holds.
C10_StatusByPriority ==
  /\ \A i \in 1..Len(coupons) :
       ListItems(coupons, redemptions, now)[i].status = ExpectedStatus(coupons[i])
  /\ call.op = "list" =>
       /\ Len(resp.items) = Len(coupons)
       /\ \A i \in 1..Len(coupons) :
            resp.items[i].status = ExpectedStatus(coupons[i])

\* list has reported "expired" for a coupon that is exhausted as well
C10_Witness ==
  /\ call.op = "list"
  /\ \E i \in 1..Len(coupons) :
       /\ resp.items[i].status = "expired"
       /\ {2, 3} \subseteq StatusConditions(coupons[i])

\* the coupons whose expiry lies between two readings of the clock: not yet
\* expired at the first, expired at the second
Expiring(c, t1, t2) ==
  c.is_active /\ c.expires_at # None /\ t1 <= c.expires_at[1] /\ c.expires_at[1] < t2

\* C11 (as stated): a step that is neither a create nor an apply leaves the
\* result of list as it was, so that two lists with no create or apply between
\* them give identical results.
C11_ListIdempotent ==
  [][call'.op \notin {"create", "apply"} =>
       ListItems(coupons', redemptions', now') = ListItems(coupons, redemptions, now)]_vars

\* C11 (amended): list answers the items computed from the store and the clock
\* and writes nothing; over a step that is neither a create nor an apply the
\* result of list keeps its coupons, their order and every field but status,
\* and the status of a coupon changes exactly when its expiry passes during the
\* step, to "expired".  At one clock value two lists are identical.
C11_ListIdempotentAtSameClock ==
  [][/\ call'.op = "list" =>
          /\ resp'.items = ListItems(coupons, redemptions, now)
          /\ coupons' = coupons /\ redemptions' = redemptions /\ now' = now
     /\ call'.op \notin {"create", "apply"} =>
          LET before == ListItems(coupons, redemptions, now)
              after == ListItems(coupons', redemptions', now')
          IN  /\ Len(after) = Len(before)
              /\ \A i \in 1..Len(before) :
                   /\ [after[i] EXCEPT !.status = before[i].status] = before[i]
                   /\ after[i].status # before[i].status
                        <=> Expiring(coupons[i], now, now')
                   /\ Expiring(coupons[i], now, now') => after[i].status = "expired"
    ]_vars

\* list has answered, after the clock moved, with a redeemed coupon and with
\* an active coupon that it reports as expired
C11_Witness ==
  /\ call.op = "list" /\ now > 0
  /\ \E i \in 1..Len(resp.items) : resp.items[i].uses > 0
  /\ \E i \in 1..Len(resp.items) :
       resp.items[i].status = "expired" /\ Expiring(coupons[i], 0, now)

PercentOutOfRange(p) ==
  p.discount_type = "percent" /\ (p.value <= 0 \/ p.value > 100000)

InvalidDiscountValue ==
  HttpError("create", 400, "Percent discount must be between 0 and 100")

DuplicateCode == HttpError("create", 400, "Coupon code already exists")

StoredValuesInRange ==
  \A i \in 1..Len(coupons) :
    /\ coupons[i].value > 0
    /\ coupons[i].discount_type = "percent" => coupons[i].value <= 100000

\* C12 (as stated): in every reachable state, a create with discount_type =
\* percent and a value outside (0, 100] is answered with the 400 of the percent
\* range check and stores nothing; every stored percent coupon has
\* 0 < value <= 100 and every stored coupon has value > 0.
C12_PercentRangeRefused ==
  /\ \A p \in CreatePayloads :
       PercentOutOfRange(p) =>
         CreateCheck(coupons, p) = [resp |-> Some(InvalidDiscountValue), insert |-> None]
  /\ StoredValuesInRange

\* C12 (amended): such a create stores nothing and is refused: with 422 by the
\* request model when value <= 0, else with the 400 of the duplicate check
\* when its normalized code is stored, else with the 400 of the percent range
\* check; a create that is refused changes neither collection; every stored
\* percent coupon has 0 < value <= 100 and every stored coupon has value > 0.
C12_PercentRangeEnforced ==
  /\ [](/\ \A p \in CreatePayloads :
             PercentOutOfRange(p) =>
               CreateCheck(coupons, p) =
                 [resp |-> Some(IF p.value <= 0 THEN Unprocessable("create")
                                ELSE IF \E i \in 1..Len(coupons) :
                                          coupons[i].code = Canonical(p.code)
                                THEN DuplicateCode
                                ELSE InvalidDiscountValue),
                  insert |-> None]
         /\ StoredValuesInRange)
  /\ [][(call'.op = "create" /\ resp'.status # 200)
          => (coupons' = coupons /\ redemptions' = redemptions)]_vars

\* a create was refused by the percent range check while a percent coupon of
\* 100% is stored
C12_Witness ==
  /\ call.op = "create" /\ resp = InvalidDiscountValue
  /\ \E i \in 1..Len(coupons) :
       coupons[i].discount_type = "percent" /\ coupons[i].value = 100000

\* n/d mills rounded to 2 decimal places, from the definition: the whole cents
\* that lie no farther than half a cent from n/d
RoundedTo2(n, d) ==
  {m \in {10 * k : k \in ((n \div (10 * d)) - 1)..((n \div (10 * d)) + 1)} :
     2 * Abs(m * d - n) <= 10 * d}

\* the two examples of the specification, on the computation of the handler
AmountExamples ==
  /\ ApplyCompute(<<"T">>, CouponDoc(<<"T">>,
                     CreatePayload(<<"T">>, <<"percent", 10000>>, <<None, None, Some(0), TRUE>>)),
                  0, [code |-> <<"T">>, order_amount |-> 100000, user_id |-> None])
       = {[resp |-> Accepted(<<"T">>, 10000, 90000),
           insert |-> Some(RedemptionDoc(<<"T">>, 100000, 10000, 90000, None))]}
  /\ ApplyCompute(<<"F">>, CouponDoc(<<"F">>,
                     CreatePayload(<<"F">>, <<"fixed", 5000>>, <<None, None, None, TRUE>>)),
                  0, [code |-> <<"F">>, order_amount |-> 3000, user_id |-> None])
       = {[resp |-> Accepted(<<"F">>, 3000, 0),
           insert |-> Some(RedemptionDoc(<<"F">>, 3000, 3000, 0, None))]}

\* C13: an apply that answers valid:true gives, for a percent coupon,
\* discount_amount = order_amount * value / 100 rounded to 2 places, for a
\* fixed coupon the value when order_amount >= value and order_amount
\* otherwise, and final_amount = order_amount - discount_amount rounded to 2
\* places; percent 10 on 100 gives 10 and 90, fixed 5 on 3 gives 3 and 0.
C13_AmountsFollowFormulas ==
  /\ []AmountExamples
  /\ [][(call'.op = "apply" /\ IsAccepted(resp')) =>
          LET c == StoredCoupon(call'.code)[1]
              o == call'.order_amount
              d == resp'.discount_amount
          IN  /\ c.discount_type = "percent" => d \in RoundedTo2(o * c.value, 100000)
              /\ c.discount_type = "fixed" => d = (IF o >= c.value THEN c.value ELSE o)
              /\ resp'.final_amount \in RoundedTo2(o - d, 1)]_vars

\* an apply of 1.234 on a 10% coupon was accepted with 0.12 off and 1.11 left,
\* and recorded so
C13_Witness ==
  /\ call.op = "apply" /\ IsAccepted(resp)
  /\ call.order_amount = 1234
  /\ resp.discount_amount = 120 /\ resp.final_amount = 1110
  /\ redemptions[Len(redemptions)].final_amount = 1110

\* C14: no step changes or removes a stored coupon; apply and list leave the
\* coupon collection as it was, list leaves the redemption collection as it
\* was, and create leaves the redemption collection and the coupons stored
\* before it as they were.
C14_CouponsWriteOnce ==
  [][/\ IsPrefix(coupons, coupons')
     /\ call'.op \in {"apply", "list"} => coupons' = coupons
     /\ call'.op \in {"list", "create"} => redemptions' = redemptions
     /\ coupons' # coupons =>
          /\ call'.op = "create" /\ resp'.status = 200
          /\ Len(coupons') = Len(coupons) + 1]_vars

\* a create has stored a second coupon while a redemption is stored, and the
\* limit of the first coupon is used up
C14_Witness ==
  /\ call.op = "create" /\ resp.status = 200
  /\ Len(coupons) >= 2 /\ Len(redemptions) >= 1
  /\ coupons[1].max_uses # None
  /\ Uses(coupons[1].code) >= coupons[1].max_uses[1]

\* the redemption records of a code
RedemptionsOf(reds, code) == {j \in 1..Len(reds) : reds[j].coupon_code = code}

\* the codes that a coupon or a redemption carries, before or after a step
CodesSeen ==
  {coupons'[i].code : i \in 1..Len(coupons')}
    \cup {redemptions'[j].coupon_code : j \in 1..Len(redemptions')}

\* C15: the uses that list reports for a coupon is the number of redemption
\* records of its code; that number is 0 when the coupon is created, grows by
\* one with every apply of the code that answers valid:true, and is changed by
\* no other step, so that it is the number of such applies since the creation.
C15_UsesCountAcceptedApplies ==
  [][/\ call'.op = "list" =>
          /\ Len(resp'.items) = Len(coupons)
          /\ \A i \in 1..Len(coupons) :
               /\ resp'.items[i].code = coupons[i].code
               /\ resp'.items[i].uses =
                    Cardinality(RedemptionsOf(redemptions, coupons[i].code))
     /\ (call'.op = "create" /\ resp'.status = 200) =>
          RedemptionsOf(redemptions', resp'.code) = {}
     /\ \A code \in CodesSeen :
          Cardinality(RedemptionsOf(redemptions', code)) =
            Cardinality(RedemptionsOf(redemptions, code)) +
              (IF call'.op = "apply" /\ IsAccepted(resp') /\ Canonical(call'.code) = code
               THEN 1 ELSE 0)]_vars

\* list has reported two uses for one coupon and none for another
C15_Witness ==
  /\ call.op = "list"
  /\ \E i, j \in 1..Len(resp.items) :
       resp.items[i].uses = 2 /\ resp.items[j].uses = 0

\* the last step was an apply, with a valid request, of a stored coupon
\* without max_uses (the coupon collection is the same before and after)
AppliedUnlimited ==
  /\ call'.op = "apply" /\ call'.order_amount >= 0
  /\ FindOne(coupons, Canonical(call'.code)) # None
  /\ FindOne(coupons, Canonical(call'.code))[1].max_uses = None

\* list never reports a coupon without max_uses as exhausted
UnlimitedNeverExhausted ==
  \A i \in 1..Len(coupons) :
    coupons[i].max_uses = None =>
      ListItems(coupons, redemptions, now)[i].status # "exhausted"

\* C16 (as stated): for a coupon without max_uses, apply never answers "Usage
\* limit reached" and list never reports exhausted; while the coupon is active
\* and unexpired and the order meets the minimum, every apply answers
\* valid:true.
C16_UnlimitedAlwaysSucceeds ==
  /\ []UnlimitedNeverExhausted
  /\ [][AppliedUnlimited =>
          LET c == FindOne(coupons, Canonical(call'.code))[1]
          IN  /\ resp' # Rejected("Usage limit reached")
              /\ (/\ c.is_active
                  /\ ~(c.expires_at # None /\ c.expires_at[1] < now)
                  /\ call'.order_amount >= c.min_order_amount)
                 => IsAccepted(resp')]_vars

\* the part of C16 that the code keeps: no "Usage limit reached", no
\* exhausted, and no rejection at all while the coupon is active and unexpired
\* and the order meets the minimum
C16_UnlimitedNeverRefused ==
  /\ []UnlimitedNeverExhausted
  /\ [][AppliedUnlimited =>
          LET c == FindOne(coupons, Canonical(call'.code))[1]
          IN  /\ resp' # Rejected("Usage limit reached")
              /\ (/\ c.is_active
                  /\ ~(c.expires_at # None /\ c.expires_at[1] < now)
                  /\ call'.order_amount >= c.min_order_amount)
                 => ~IsRejection(resp')]_vars

\* the valid apply requests for the i-th stored coupon whose order meets its
\* minimum
OrdersAboveMinimum(i) ==
  {req \in ApplyPayloads :
     /\ ValidApplyRequest(req)
     /\ Canonical(req.code) = coupons[i].code
     /\ req.order_amount >= coupons[i].min_order_amount}

\* both handlers take a coupon whose expires_at is the current time as not
\* yet expired
NotExpiredAtExpiry ==
  \A i \in 1..Len(coupons) :
    (coupons[i].is_active /\ coupons[i].expires_at = Some(now)) =>
      /\ ListItems(coupons, redemptions, now)[i].status # "expired"
      /\ \A req \in OrdersAboveMinimum(i) :
           \A o \in ApplyOutcomes(coupons, redemptions, now, req) :
             o.resp # Rejected("Coupon expired")

\* C17 (as stated): on one store state and one clock value, list reports a
\* coupon as inactive, expired or exhausted exactly when an apply of its code
\* whose order meets the minimum is refused with "Coupon inactive", "Coupon
\* expired" or "Usage limit reached", and as active exactly when that apply
\* answers valid:true; an expires_at equal to the current time is not yet
\* expired for either.
C17_ListAndApplyAgree ==
  /\ \A i \in 1..Len(coupons) :
       LET st == ListItems(coupons, redemptions, now)[i].status
       IN  \A req \in OrdersAboveMinimum(i) :
             \A o \in ApplyOutcomes(coupons, redemptions, now, req) :
               /\ st = "inactive" <=> o.resp = Rejected("Coupon inactive")
               /\ st = "expired" <=> o.resp = Rejected("Coupon expired")
               /\ st = "exhausted" <=> o.resp = Rejected("Usage limit reached")
               /\ st = "active" <=> IsAccepted(o.resp)
  /\ NotExpiredAtExpiry

\* the part of C17 that the code keeps: the three refusals match the three
\* statuses, and a coupon is active exactly when that apply is not refused
C17_ListAndApplyAgreeOnRefusals ==
  /\ \A i \in 1..Len(coupons) :
       LET st == ListItems(coupons, redemptions, now)[i].status
       IN  \A req \in OrdersAboveMinimum(i) :
             \A o \in ApplyOutcomes(coupons, redemptions, now, req) :
               /\ st = "inactive" <=> o.resp = Rejected("Coupon inactive")
               /\ st = "expired" <=> o.resp = Rejected("Coupon expired")
               /\ st = "exhausted" <=> o.resp = Rejected("Usage limit reached")
               /\ st = "active" <=> ~IsRejection(o.resp)
  /\ NotExpiredAtExpiry

StateReasons == {"Coupon inactive", "Coupon expired", "Usage limit reached"}

NormalCodes == {Canonical(raw) : raw \in RawCodes}

\* the last step refused an apply of the code for a reason that lies in the
\* state of the coupon
RefusedForState(code) ==
  /\ call.op = "apply" /\ Canonical(call.code) = code
  /\ \E reason \in StateReasons : resp = Rejected(reason)

AcceptedFor(code) ==
  call.op = "apply" /\ Canonical(call.code) = code /\ IsAccepted(resp)

\* the last step was a list that reported the code with a status in the set
ListedAs(code, statuses) ==
  /\ call.op = "list"
  /\ \E i \in 1..Len(resp.items) :
       resp.items[i].code = code /\ resp.items[i].status \in statuses

\* C18: the clock never goes back; once an apply of a code was refused with
\* "Coupon inactive", "Coupon expired" or "Usage limit reached", no later apply
\* of that code answers valid:true; once list reported a coupon as inactive,
\* expired or exhausted, it never reports it as active again.
C18_RejectionIsPermanent ==
  /\ [][now' >= now]_vars
  /\ \A code \in NormalCodes :
       /\ [](RefusedForState(code) => [](~AcceptedFor(code)))
       /\ [](ListedAs(code, {"inactive", "expired", "exhausted"})
              => [](~ListedAs(code, {"active"})))

\* an apply was refused with "Usage limit reached" for a code that an earlier
\* apply had redeemed, after the clock moved
C18_Witness ==
  /\ call.op = "apply" /\ resp = Rejected("Usage limit reached")
  /\ now > 0
  /\ Uses(Canonical(call.code)) > 0

\* every redemption record carries the code of a stored coupon
RedemptionsReferToCoupons ==
  \A j \in 1..Len(redemptions) :
    \E i \in 1..Len(coupons) : coupons[i].code = redemptions[j].coupon_code

\* C19 (as stated): in every reachable state, those of concurrent requests
\* included, the coupon_code of every redemption record is the code of a
\* stored coupon; a create that succeeds finds no redemption record of the new
\* code, so that the uses = 0 of its response is the count of those records.
C19_RedemptionsReferToCoupons ==
  /\ []RedemptionsReferToCoupons
  /\ [][(call'.op = "create" /\ resp'.status = 200) =>
          /\ resp'.code = Canonical(call'.code)
          /\ resp'.code = coupons'[Len(coupons')].code
          /\ resp'.uses = Cardinality(RedemptionsOf(redemptions', resp'.code))
          /\ resp'.uses = 0]_vars

\* C20 (as stated): in every reachable state of concurrent requests, between
\* the lookup and the insert of a create included, no two stored coupons have
\* the same code.
C20_UniqueUnderConcurrentCreate ==
  \A i, j \in 1..Len(coupons) : coupons[i].code = coupons[j].code => i = j

\* the part of C20 that the code keeps: a create refuses the codes that are
\* stored when it looks them up, so that a code is stored twice only by
\* creates that overlap, at most once per worker
C20_DuplicatesOnlyFromOverlap ==
  \A i \in 1..Len(coupons) :
    Cardinality({j \in 1..Len(coupons) : coupons[j].code = coupons[i].code})
      <= Cardinality(Procs)

====
